---- MODULE Spec2Model ----
(***************************************************************************)
(* The containers of src/src/dsc.h: List<T> and IdList<T,H>, over an       *)
(* explicit heap, so that who owns which backing store is part of the      *)
(* state, and RgbaColor with its packed 32-bit form.  Every C++ method of  *)
(* the containers is a pure operator on a machine value                    *)
(*   m = [heap, idl, lst, oops]                                            *)
(* (the heap, the IdList objects, the List object, and whether oops() has  *)
(* ended the process), translated statement by statement; loops are        *)
(* RECURSIVE operators.  An action applies one method to the current       *)
(* machine and records the call and its result in `last`.                  *)
(***************************************************************************)
EXTENDS Integers, Sequences, FiniteSets

VARIABLES heap, idl, lst, oopsed, last, assigned, it, seen, adds, rgba

vars == <<heap, idl, lst, oopsed, last, assigned, it, seen, adds, rgba>>

----------------------------------------------------------------------------
(* Bounds of the model.                                                    *)

\* IdList: a call that adds is made only while n < MaxN.
MaxN == 3
\* IdList: AddAndAssignId is called only while the maximum handle is below
\* MaxId, or is the largest uint32_t (where the increment wraps).
MaxId == 3
\* List: Add is called at most MaxAdds times (enough to pass the first
\* capacity, 64, and grow again).
MaxAdds == 66
\* List, edited: a call that adds is made only while n < MaxLen or while the
\* block has no room left, and a negative count is passed only while
\* n <= MaxLen.
MaxLen == 2

----------------------------------------------------------------------------
(* uint32_t.  TLC's integers are 32-bit signed, so a uint32_t is kept as    *)
(* two 16-bit limbs, value = hi * 2^16 + lo, with exact wrap-around.       *)

Limb == 65536

U32(hi, lo) == [hi |-> hi, lo |-> lo]

U32Lt(a, b) == a.hi < b.hi \/ (a.hi = b.hi /\ a.lo < b.lo)

U32Gt(a, b) == U32Lt(b, a)

\* (a + 1) in uint32_t arithmetic
U32Inc(a) ==
    IF a.lo + 1 < Limb THEN U32(a.hi, a.lo + 1)
    ELSE U32((a.hi + 1) % Limb, 0)

\* the max() macro on two uint32_t
max(a, b) == IF U32Gt(a, b) THEN a ELSE b

U32Zero == U32(0, 0)
U32Max == U32(Limb - 1, Limb - 1)

----------------------------------------------------------------------------
(* Memory.  An address is a positive integer, NULL is 0.  A block is        *)
(* [size, data]: `size` element slots, of which slots 0..Len(data)-1 hold  *)
(* the values written to them; the slots above hold no determinate value   *)
(* (fresh from the allocator, or left behind by IdList's sweep) and read as *)
(* Junk.  No method of IdList reads a slot at or above n.  A List keeps    *)
(* what its slots at and above n held: RemoveLast with a negative count    *)
(* brings them back below n.                                               *)

NULL == 0

Junk == [h |-> U32(-1, -1), tag |-> -1, val |-> -1]

NullPtr == [addr |-> NULL, idx |-> 0]

\* the least address not in use
FreshAddr(hp) == CHOOSE a \in 1..(Cardinality(DOMAIN hp) + 1) : a \notin DOMAIN hp

\* elem[i] of the block at address p
Read(hp, p, i) ==
    IF p \in DOMAIN hp /\ i >= 0 /\ i < Len(hp[p].data) THEN hp[p].data[i + 1] ELSE Junk

\* the block at p with its element array replaced by d
Store(hp, p, d) == [hp EXCEPT ![p] = [@ EXCEPT !.data = d]]

\* MemAlloc(cnt * sizeof(T)): a fresh block of cnt slots
MemAlloc(hp, cnt) ==
    LET p == FreshAddr(hp)
    IN  [heap |-> [a \in DOMAIN hp \cup {p} |->
                     IF a = p THEN [size |-> cnt, data |-> <<>>] ELSE hp[a]],
         ptr |-> p]

\* MemRealloc(p, cnt * sizeof(T)): the block resized to cnt slots, its
\* contents kept; a NULL p allocates.  The block keeps its address: no
\* method holds an element address across a call that reallocates.
MemRealloc(hp, p, cnt) ==
    IF p = NULL THEN MemAlloc(hp, cnt)
    ELSE [heap |-> [hp EXCEPT ![p] = [@ EXCEPT !.size = cnt]], ptr |-> p]

\* MemFree(p)
MemFree(hp, p) == [a \in DOMAIN hp \ {p} |-> hp[a]]

\* oops(): the process ends here
oops(m) == [m EXCEPT !.oops = TRUE]

----------------------------------------------------------------------------
(* IdList<T,H>.  `l` names the object; m.idl[l] = [elem, n, elemsAllocated] *)

IdNames == {"a", "b"}

EmptyStruct == [elem |-> NULL, n |-> 0, elemsAllocated |-> 0]

\* elem[0..n-1] of the object, as a sequence
IdElems(m, l) ==
    [i \in 1..m.idl[l].n |-> Read(m.heap, m.idl[l].elem, i - 1)]

\* the element array of l's block with a slot written: elem[i] = t
RECURSIVE PadTo(_, _)
PadTo(d, k) == IF Len(d) >= k THEN d ELSE PadTo(Append(d, Junk), k)

Poke(d, i, t) == [PadTo(d, i + 1) EXCEPT ![i + 1] = t]

IdData(m, l) ==
    IF m.idl[l].elem \in DOMAIN m.heap THEN m.heap[m.idl[l].elem].data ELSE <<>>

IdWrite(m, l, d) ==
    IF m.idl[l].elem \in DOMAIN m.heap
    THEN [m EXCEPT !.heap = Store(m.heap, m.idl[l].elem, d)]
    ELSE m

\* the loop of MaximumId, from index i with the running maximum id
RECURSIVE MaximumIdLoop(_, _, _, _)
MaximumIdLoop(m, l, i, id) ==
    IF i < m.idl[l].n
    THEN MaximumIdLoop(m, l, i + 1, max(id, Read(m.heap, m.idl[l].elem, i).h))
    ELSE id

MaximumId(m, l) == MaximumIdLoop(m, l, 0, U32Zero)

\* the growth step at the head of Add
IdGrow(m, l) ==
    IF m.idl[l].n >= m.idl[l].elemsAllocated
    THEN LET cap == (m.idl[l].elemsAllocated + 32) * 2
             r == MemRealloc(m.heap, m.idl[l].elem, cap)
         IN  [m EXCEPT !.heap = r.heap,
                       !.idl[l].elemsAllocated = cap,
                       !.idl[l].elem = r.ptr]
    ELSE m

\* AddSearch with the two comparisons' branches exchanged
RECURSIVE AddSearchInverted(_, _, _, _, _)
AddSearchInverted(m, l, first, lastIx, hv) ==
    IF first # lastIx
    THEN LET mid == (first + lastIx) \div 2
             hm == Read(m.heap, m.idl[l].elem, mid).h
         IN  IF U32Lt(hm, hv) THEN AddSearchInverted(m, l, first, mid, hv)
             ELSE IF U32Gt(hm, hv) THEN AddSearchInverted(m, l, mid + 1, lastIx, hv)
             ELSE -1
    ELSE first

\* AddSearch with <= for <: an equal handle is passed over
RECURSIVE AddSearchNoDupCheck(_, _, _, _, _)
AddSearchNoDupCheck(m, l, first, lastIx, hv) ==
    IF first # lastIx
    THEN LET mid == (first + lastIx) \div 2
             hm == Read(m.heap, m.idl[l].elem, mid).h
         IN  IF U32Gt(hm, hv) THEN AddSearchNoDupCheck(m, l, first, mid, hv)
             ELSE AddSearchNoDupCheck(m, l, mid + 1, lastIx, hv)
    ELSE first

\* the binary search of Add on [first, last]: the insertion index, or -1
\* where the loop reaches oops()
RECURSIVE AddSearch(_, _, _, _, _)
AddSearch(m, l, first, lastIx, hv) ==
    IF first # lastIx
    THEN LET mid == (first + lastIx) \div 2
             hm == Read(m.heap, m.idl[l].elem, mid).h
         IN  IF U32Gt(hm, hv) THEN AddSearch(m, l, first, mid, hv)
             ELSE IF U32Lt(hm, hv) THEN AddSearch(m, l, mid + 1, lastIx, hv)
             ELSE -1
    ELSE first

\* ShiftInsert without the memmove: elem[i] is overwritten
ShiftInsertNoMove(d, n, i, t) ==
    [k \in 1..(n + 1) |-> IF k = i + 1 THEN t ELSE IF k <= Len(d) THEN d[k] ELSE Junk]

\* memmove(elem+i+1, elem+i, (n-i)*sizeof(elem[0])); elem[i] = *t
ShiftInsert(d, n, i, t) ==
    LET src == [k \in 1..n |-> IF k <= Len(d) THEN d[k] ELSE Junk]
        moved == [k \in 1..(n + 1) |->
                    IF k <= i THEN src[k]
                    ELSE IF k = i + 1 THEN t
                    ELSE src[k - 1]]
    IN  IF Len(d) > n + 1
        THEN moved \o SubSeq(d, n + 2, Len(d))
        ELSE moved

\* Add without the oops(): on an equal handle it returns, inserting nothing
IdList_AddNoOops(m, l, t) ==
    LET g == IdGrow(m, l)
        i == AddSearch(g, l, 0, g.idl[l].n, t.h)
    IN  IF i = -1 THEN g
        ELSE [IdWrite(g, l, ShiftInsert(IdData(g, l), g.idl[l].n, i, t))
                EXCEPT !.idl[l].n = @ + 1]

IdList_Add(m, l, t) ==
    LET g == IdGrow(m, l)
        i == AddSearch(g, l, 0, g.idl[l].n, t.h)
    IN  IF i = -1 THEN oops(g)
        ELSE [IdWrite(g, l, ShiftInsert(IdData(g, l), g.idl[l].n, i, t))
                EXCEPT !.idl[l].n = @ + 1]

\* t->h.v = MaximumId() + 1; Add(t); return t->h.  The result is the machine
\* and the caller's element, whose handle is the value returned.
AddAndAssignId(m, l, t) ==
    LET t2 == [t EXCEPT !.h = U32Inc(MaximumId(m, l))]
    IN  [m |-> IdList_Add(m, l, t2), t |-> t2]

\* the binary search of FindByIdNoOops on [first, last]
RECURSIVE FindLoop(_, _, _, _, _)
FindLoop(m, l, first, lastIx, hv) ==
    IF first <= lastIx
    THEN LET mid == (first + lastIx) \div 2
             hm == Read(m.heap, m.idl[l].elem, mid).h
         IN  IF U32Gt(hm, hv) THEN FindLoop(m, l, first, mid - 1, hv)
             ELSE IF U32Lt(hm, hv) THEN FindLoop(m, l, mid + 1, lastIx, hv)
             ELSE [addr |-> m.idl[l].elem, idx |-> mid]
    ELSE NullPtr

\* FindByIdNoOops with last = n-2: the last element is not searched
FindByIdNoOopsShort(m, l, hv) == FindLoop(m, l, 0, m.idl[l].n - 2, hv)

FindByIdNoOops(m, l, hv) == FindLoop(m, l, 0, m.idl[l].n - 1, hv)

\* FindById without the check of the pointer
FindByIdNoCheck(m, l, hv) == [m |-> m, ptr |-> FindByIdNoOops(m, l, hv)]

\* the machine (ended by oops() on a miss) and the pointer returned
FindById(m, l, hv) ==
    LET t == FindByIdNoOops(m, l, hv)
    IN  IF t = NullPtr THEN [m |-> oops(m), ptr |-> t]
        ELSE [m |-> m, ptr |-> t]

\* for(i = 0; i < n; i++) elem[i].tag = 0;
RECURSIVE ClearTagsLoop(_, _, _)
ClearTagsLoop(d, n, i) ==
    IF i < n
    THEN ClearTagsLoop(Poke(d, i, [PadTo(d, i + 1)[i + 1] EXCEPT !.tag = 0]), n, i + 1)
    ELSE d

IdList_ClearTags(m, l) ==
    IdWrite(m, l, ClearTagsLoop(IdData(m, l), m.idl[l].n, 0))

\* for(i = 0; i < n; i++) if(elem[i].h.v == h.v) elem[i].tag = tag;
RECURSIVE TagLoop(_, _, _, _, _)
TagLoop(d, n, i, hv, tag) ==
    IF i < n
    THEN IF PadTo(d, i + 1)[i + 1].h = hv
         THEN TagLoop(Poke(d, i, [PadTo(d, i + 1)[i + 1] EXCEPT !.tag = tag]),
                      n, i + 1, hv, tag)
         ELSE TagLoop(d, n, i + 1, hv, tag)
    ELSE d

Tag(m, l, hv, tag) ==
    IdWrite(m, l, TagLoop(IdData(m, l), m.idl[l].n, 0, hv, tag))

\* the sweep loop of RemoveTagged: [d, dest] once src reaches n
RECURSIVE SweepLoop(_, _, _, _)
SweepLoop(d, n, src, dest) ==
    IF src < n
    THEN IF PadTo(d, src + 1)[src + 1].tag # 0
         THEN SweepLoop(d, n, src + 1, dest)
         ELSE SweepLoop(IF src # dest THEN Poke(d, dest, PadTo(d, src + 1)[src + 1]) ELSE d,
                        n, src + 1, dest + 1)
    ELSE [d |-> d, dest |-> dest]

\* n = dest.  The slots dest.. keep stale copies that nothing reads again:
\* the model drops them (they read as Junk).
IdList_RemoveTagged(m, l) ==
    LET r == SweepLoop(IdData(m, l), m.idl[l].n, 0, 0)
    IN  [IdWrite(m, l, SubSeq(r.d, 1, r.dest)) EXCEPT !.idl[l].n = r.dest]

\* RemoveById without the ClearTags()
RemoveByIdKeepTags(m, l, hv) ==
    LET f == FindById(m, l, hv)
    IN  IF f.m.oops THEN f.m
        ELSE IdList_RemoveTagged(
                 IdWrite(m, l, Poke(IdData(m, l), f.ptr.idx,
                                    [Read(m.heap, f.ptr.addr, f.ptr.idx) EXCEPT !.tag = 1])),
                 l)

\* RemoveById that takes the one element out and leaves the tags alone
RemoveByIdPreserving(m, l, hv) ==
    LET f == FindById(m, l, hv)
        d == IdData(m, l)
    IN  IF f.m.oops THEN f.m
        ELSE [IdWrite(m, l, SubSeq(d, 1, f.ptr.idx) \o SubSeq(d, f.ptr.idx + 2, m.idl[l].n))
                EXCEPT !.idl[l].n = @ - 1]

\* ClearTags(); FindById(h)->tag = 1; RemoveTagged();
RemoveById(m, l, hv) ==
    LET c == IdList_ClearTags(m, l)
        f == FindById(c, l, hv)
    IN  IF f.m.oops THEN f.m
        ELSE IdList_RemoveTagged(
                 IdWrite(c, l, Poke(IdData(c, l), f.ptr.idx,
                                    [Read(c.heap, f.ptr.addr, f.ptr.idx) EXCEPT !.tag = 1])),
                 l)

\* MoveSelfInto that leaves the source's elem pointing at the moved block
MoveSelfIntoKeepElem(m, l, dst) ==
    [[m EXCEPT !.idl[dst] = m.idl[l]]
       EXCEPT !.idl[l] = [elem |-> m.idl[l].elem, n |-> 0, elemsAllocated |-> 0]]

\* memcpy(l, this, sizeof(*this)); elemsAllocated = n = 0; elem = NULL;
MoveSelfInto(m, l, dst) ==
    [[m EXCEPT !.idl[dst] = m.idl[l]] EXCEPT !.idl[l] = EmptyStruct]

\* DeepCopyInto that copies the elem pointer instead of the block
DeepCopyIntoShallow(m, l, dst) ==
    [m EXCEPT !.idl[dst] = m.idl[l]]

\* l->elem = MemAlloc(elemsAllocated * sizeof(elem[0]));
\* memcpy(l->elem, elem, elemsAllocated * sizeof(elem[0]));
\* l->elemsAllocated = elemsAllocated; l->n = n;
DeepCopyInto(m, l, dst) ==
    LET r == MemAlloc(m.heap, m.idl[l].elemsAllocated)
    IN  [m EXCEPT !.heap = Store(r.heap, r.ptr, IdData(m, l)),
                  !.idl[dst] = [elem |-> r.ptr,
                                elemsAllocated |-> m.idl[l].elemsAllocated,
                                n |-> m.idl[l].n]]

\* the events of Clear's loop: elem[i].Clear() for i = 0..n-1
RECURSIVE ClearLoop(_, _, _, _)
ClearLoop(m, l, i, log) ==
    IF i < m.idl[l].n
    THEN ClearLoop(m, l, i + 1,
                   Append(log, [ev |-> "T::Clear", idx |-> i,
                                h |-> Read(m.heap, m.idl[l].elem, i).h]))
    ELSE log

\* Clear whose loop starts at elem[1]
IdList_ClearSkipFirst(m, l) ==
    LET log == ClearLoop(m, l, 1, <<>>)
        p == m.idl[l].elem
    IN  [m |-> [m EXCEPT !.idl[l] = EmptyStruct,
                         !.heap = IF p # NULL THEN MemFree(m.heap, p) ELSE m.heap],
         log |-> IF p # NULL
                 THEN Append(log, [ev |-> "MemFree", idx |-> 0, h |-> U32Zero])
                 ELSE log]

\* the loop; elemsAllocated = n = 0; if(elem) MemFree(elem); elem = NULL;
\* The result is the machine and the events in the order they happened.
IdList_Clear(m, l) ==
    LET log == ClearLoop(m, l, 0, <<>>)
        p == m.idl[l].elem
    IN  [m |-> [m EXCEPT !.idl[l] = EmptyStruct,
                         !.heap = IF p # NULL THEN MemFree(m.heap, p) ELSE m.heap],
         log |-> IF p # NULL
                 THEN Append(log, [ev |-> "MemFree", idx |-> 0, h |-> U32Zero])
                 ELSE log]

----------------------------------------------------------------------------
(* List<T>.  m.lst = [elem, n, elemsAllocated]                              *)

ListElems(m) == [i \in 1..m.lst.n |-> Read(m.heap, m.lst.elem, i - 1)]

ListData(m) ==
    IF m.lst.elem \in DOMAIN m.heap THEN m.heap[m.lst.elem].data ELSE <<>>

AllocForOneMore(m) ==
    IF m.lst.n >= m.lst.elemsAllocated
    THEN LET cap == (m.lst.elemsAllocated + 32) * 2
             r == MemRealloc(m.heap, m.lst.elem, cap)
         IN  [m EXCEPT !.heap = r.heap,
                       !.lst.elemsAllocated = cap,
                       !.lst.elem = r.ptr]
    ELSE m

\* AllocForOneMore(); elem[n++] = *t;
List_Add(m, t) ==
    LET g == AllocForOneMore(m)
    IN  [g EXCEPT !.heap = Store(g.heap, g.lst.elem, Poke(ListData(g), g.lst.n, t)),
                  !.lst.n = @ + 1]

\* (n == 0) ? NULL : &(elem[0])
First(m) == IF m.lst.n = 0 THEN NullPtr ELSE [addr |-> m.lst.elem, idx |-> 0]

\* NextAfter with n for n - 1: one step too far
NextAfterTooFar(m, prev) ==
    IF prev = NullPtr THEN NullPtr
    ELSE IF prev.idx = m.lst.n THEN NullPtr
    ELSE [addr |-> prev.addr, idx |-> prev.idx + 1]

\* if(!prev) return NULL; if(prev - elem == (n - 1)) return NULL; return prev + 1;
\* prev points into elem's block, so prev - elem is its index.
NextAfter(m, prev) ==
    IF prev = NullPtr THEN NullPtr
    ELSE IF prev.idx = m.lst.n - 1 THEN NullPtr
    ELSE [addr |-> prev.addr, idx |-> prev.idx + 1]

\* AllocForOneMore(); memmove(elem+1, elem, n*sizeof(elem[0])); n++; elem[0] = *t;
AddToBeginning(m, t) ==
    LET g == AllocForOneMore(m)
    IN  [g EXCEPT !.heap = Store(g.heap, g.lst.elem, ShiftInsert(ListData(g), g.lst.n, 0, t)),
                  !.lst.n = @ + 1]

\* for(i = 0; i < n; i++) elem[i].tag = 0;
List_ClearTags(m) ==
    IF m.lst.elem \in DOMAIN m.heap
    THEN [m EXCEPT !.heap = Store(m.heap, m.lst.elem, ClearTagsLoop(ListData(m), m.lst.n, 0))]
    ELSE m

\* if(elem) MemFree(elem); elem = NULL; n = elemsAllocated = 0;
List_Clear(m) ==
    [m EXCEPT !.heap = IF m.lst.elem # NULL THEN MemFree(m.heap, m.lst.elem) ELSE m.heap,
              !.lst = EmptyStruct]

\* the sweep without the copy elem[dest] = elem[src]
RECURSIVE SweepLoopNoCopy(_, _, _, _)
SweepLoopNoCopy(d, n, src, dest) ==
    IF src < n
    THEN IF PadTo(d, src + 1)[src + 1].tag # 0
         THEN SweepLoopNoCopy(d, n, src + 1, dest)
         ELSE SweepLoopNoCopy(d, n, src + 1, dest + 1)
    ELSE [d |-> d, dest |-> dest]

\* List::RemoveTagged with the copy left out of its loop
List_RemoveTaggedNoCopy(m) ==
    LET r == SweepLoopNoCopy(ListData(m), m.lst.n, 0, 0)
    IN  IF m.lst.elem \in DOMAIN m.heap
        THEN [m EXCEPT !.heap = Store(m.heap, m.lst.elem, r.d), !.lst.n = r.dest]
        ELSE [m EXCEPT !.lst.n = r.dest]

\* the loop of List::RemoveTagged (the same as IdList's), then n = dest.  The
\* slots from dest on keep what they held.
List_RemoveTagged(m) ==
    LET r == SweepLoop(ListData(m), m.lst.n, 0, 0)
    IN  IF m.lst.elem \in DOMAIN m.heap
        THEN [m EXCEPT !.heap = Store(m.heap, m.lst.elem, r.d), !.lst.n = r.dest]
        ELSE [m EXCEPT !.lst.n = r.dest]

\* RemoveLast with <= for <: removing all n elements aborts
RemoveLastOffByOne(m, cnt) ==
    IF m.lst.n <= cnt THEN oops(m)
    ELSE [m EXCEPT !.lst.n = @ - cnt]

\* if(n < cnt) oops(); n -= cnt;
RemoveLast(m, cnt) ==
    IF m.lst.n < cnt THEN oops(m)
    ELSE [m EXCEPT !.lst.n = @ - cnt]

\* for(i = 0; i < (n/2); i++) SWAP(T, elem[i], elem[(n-1)-i]);
RECURSIVE ReverseLoop(_, _, _)
ReverseLoop(d, n, i) ==
    IF i < n \div 2
    THEN LET p == PadTo(d, n)
         IN  ReverseLoop([p EXCEPT ![i + 1] = p[n - i], ![n - i] = p[i + 1]], n, i + 1)
    ELSE d

Reverse(m) ==
    IF m.lst.elem \in DOMAIN m.heap
    THEN [m EXCEPT !.heap = Store(m.heap, m.lst.elem, ReverseLoop(ListData(m), m.lst.n, 0))]
    ELSE m

----------------------------------------------------------------------------
(* RgbaColor: four uint8_t fields, and the uint32_t it packs into.          *)

\* (uint8_t)x
U8(x) == x % 256

\* (uint32_t)x of an int x with 0 <= x < 2^31
ToU32(x) == U32(x \div Limb, x % Limb)

\* (int)x of a uint32_t x below 2^31
ToInt(x) == x.hi * Limb + x.lo

\* a | b and a & b on the bits of a limb
RECURSIVE BitOr(_, _)
BitOr(a, b) ==
    IF a = 0 THEN b
    ELSE IF b = 0 THEN a
    ELSE (IF a % 2 = 1 \/ b % 2 = 1 THEN 1 ELSE 0) + 2 * BitOr(a \div 2, b \div 2)

RECURSIVE BitAnd(_, _)
BitAnd(a, b) ==
    IF a = 0 \/ b = 0 THEN 0
    ELSE (IF a % 2 = 1 /\ b % 2 = 1 THEN 1 ELSE 0) + 2 * BitAnd(a \div 2, b \div 2)

\* x | y and x & y on uint32_t
U32Or(x, y) == U32(BitOr(x.hi, y.hi), BitOr(x.lo, y.lo))
U32And(x, y) == U32(BitAnd(x.hi, y.hi), BitAnd(x.lo, y.lo))

\* x << k with the result taken as a uint32_t: the bits pushed past bit 31
\* are lost
RECURSIVE Shl(_, _)
Shl(x, k) ==
    IF k = 0 THEN x
    ELSE Shl(U32((x.hi * 2 + (x.lo * 2) \div Limb) % Limb, (x.lo * 2) % Limb), k - 1)

\* x >> k on a uint32_t
RECURSIVE Shr(_, _)
Shr(x, k) ==
    IF k = 0 THEN x
    ELSE Shr(U32(x.hi \div 2, x.lo \div 2 + (x.hi % 2) * (Limb \div 2)), k - 1)

\* 0xff
Mask == U32(0, 255)

\* c.red = (uint8_t)r; c.green = (uint8_t)g; c.blue = (uint8_t)b; c.alpha = (uint8_t)a;
From(r, g, b, a) == [red |-> U8(r), green |-> U8(g), blue |-> U8(b), alpha |-> U8(a)]

\* ToPackedInt with alpha << 24 for (255 - alpha) << 24
ToPackedIntPlainAlpha(c) ==
    U32Or(U32Or(U32Or(ToU32(c.red), Shl(ToU32(c.green), 8)),
                Shl(ToU32(c.blue), 16)),
          Shl(ToU32(c.alpha), 24))

\* red | (uint32_t)(green << 8) | (uint32_t)(blue << 16) | (uint32_t)((255 - alpha) << 24)
ToPackedInt(c) ==
    U32Or(U32Or(U32Or(ToU32(c.red), Shl(ToU32(c.green), 8)),
                Shl(ToU32(c.blue), 16)),
          Shl(ToU32(255 - c.alpha), 24))

\* FromPackedInt with (bgra >> 24) & 0xff for 255 - ((bgra >> 24) & 0xff)
FromPackedIntPlainAlpha(bgra) ==
    From(ToInt(U32And(bgra, Mask)),
         ToInt(U32And(Shr(bgra, 8), Mask)),
         ToInt(U32And(Shr(bgra, 16), Mask)),
         ToInt(U32And(Shr(bgra, 24), Mask)))

\* From((int)(bgra & 0xff), (int)((bgra >> 8) & 0xff), (int)((bgra >> 16) & 0xff),
\*      (int)(255 - ((bgra >> 24) & 0xff)))
FromPackedInt(bgra) ==
    From(ToInt(U32And(bgra, Mask)),
         ToInt(U32And(Shr(bgra, 8), Mask)),
         ToInt(U32And(Shr(bgra, 16), Mask)),
         255 - ToInt(U32And(Shr(bgra, 24), Mask)))

----------------------------------------------------------------------------
(* The state machine.                                                      *)

\* the machine the variables hold
Cur == [heap |-> heap, idl |-> idl, lst |-> lst, oops |-> oopsed]

\* A block no object points to any more (MoveSelfInto and DeepCopyInto
\* overwrite the destination's elem without freeing it) can never be read or
\* written again: the state does not keep it.
Live(m) == ({m.idl[l].elem : l \in IdNames} \cup {m.lst.elem}) \ {NULL}

Commit(m) ==
    /\ heap' = [a \in DOMAIN m.heap \cap Live(m) |-> m.heap[a]]
    /\ idl' = m.idl
    /\ lst' = m.lst
    /\ oopsed' = m.oops

\* the record of a call: the method, the object, the element and handle
\* passed (the element as the call left it), the tag passed, the pointer
\* returned and the events logged
Call(op, l, t, h, tag, ptr, log) ==
    [op |-> op, id |-> l, t |-> t, h |-> h, tag |-> tag, ptr |-> ptr, log |-> log]

\* the inputs
Handles == {U32(0, k) : k \in 0..MaxId} \cup {U32Max}
Tags == {0, 1}
Elements == {[h |-> h, tag |-> g, val |-> 0] : h \in Handles, g \in Tags}
Blank == {[h |-> U32Zero, tag |-> g, val |-> 0] : g \in Tags}

HasHandle(m, l, hv) == \E i \in 1..m.idl[l].n : IdElems(m, l)[i].h = hv

\* no color made yet
NoColor == [pc |-> "none", c |-> From(0, 0, 0, 255), packed |-> U32Zero,
            back |-> From(0, 0, 0, 255)]

Init ==
    /\ heap = <<>>
    /\ idl = [l \in IdNames |-> EmptyStruct]
    /\ lst = EmptyStruct
    /\ oopsed = FALSE
    /\ last = Call("Init", "a", Junk, U32Zero, 0, NullPtr, <<>>)
    /\ assigned = {}
    /\ it = NullPtr
    /\ seen = <<>>
    /\ adds = 0
    /\ rgba = NoColor

CallAdd(l, t) ==
    /\ ~oopsed
    /\ idl[l].n < MaxN \/ HasHandle(Cur, l, t.h)
    /\ Commit(IdList_Add(Cur, l, t))
    /\ last' = Call("Add", l, t, t.h, 0, NullPtr, <<>>)
    /\ UNCHANGED <<assigned, it, seen, adds, rgba>>

\* the step of AddAndAssignId, without the history variable
AssignStep(l, t) ==
    /\ ~oopsed
    /\ idl[l].n < MaxN
    /\ U32Lt(MaximumId(Cur, l), U32(0, MaxId)) \/ MaximumId(Cur, l) = U32Max
    /\ LET r == AddAndAssignId(Cur, l, t)
       IN  /\ Commit(r.m)
           /\ last' = Call("AddAndAssignId", l, r.t, r.t.h, 0, NullPtr, <<>>)
    /\ UNCHANGED <<it, seen, adds, rgba>>

CallAddAndAssignId(l, t) ==
    /\ AssignStep(l, t)
    /\ UNCHANGED assigned

\* AddAndAssignId, with the handles it has returned so far kept in `assigned`
TrackAddAndAssignId(l, t) ==
    /\ AssignStep(l, t)
    /\ assigned' = IF oopsed' THEN assigned ELSE assigned \cup {last'.h}

CallRemoveById(l, hv) ==
    /\ ~oopsed
    /\ Commit(RemoveById(Cur, l, hv))
    /\ last' = Call("RemoveById", l, Junk, hv, 0, NullPtr, <<>>)
    /\ UNCHANGED <<assigned, it, seen, adds, rgba>>

CallFindById(l, hv) ==
    /\ ~oopsed
    /\ LET r == FindById(Cur, l, hv)
       IN  /\ Commit(r.m)
           /\ last' = Call("FindById", l, Junk, hv, 0, r.ptr, <<>>)
    /\ UNCHANGED <<assigned, it, seen, adds, rgba>>

CallFindByIdNoOops(l, hv) ==
    /\ ~oopsed
    /\ Commit(Cur)
    /\ last' = Call("FindByIdNoOops", l, Junk, hv, 0, FindByIdNoOops(Cur, l, hv), <<>>)
    /\ UNCHANGED <<assigned, it, seen, adds, rgba>>

CallTag(l, hv, tag) ==
    /\ ~oopsed
    /\ Commit(Tag(Cur, l, hv, tag))
    /\ last' = Call("Tag", l, Junk, hv, tag, NullPtr, <<>>)
    /\ UNCHANGED <<assigned, it, seen, adds, rgba>>

CallClearTags(l) ==
    /\ ~oopsed
    /\ Commit(IdList_ClearTags(Cur, l))
    /\ last' = Call("ClearTags", l, Junk, U32Zero, 0, NullPtr, <<>>)
    /\ UNCHANGED <<assigned, it, seen, adds, rgba>>

CallRemoveTagged(l) ==
    /\ ~oopsed
    /\ Commit(IdList_RemoveTagged(Cur, l))
    /\ last' = Call("RemoveTagged", l, Junk, U32Zero, 0, NullPtr, <<>>)
    /\ UNCHANGED <<assigned, it, seen, adds, rgba>>

CallMoveSelfInto(l, dst) ==
    /\ ~oopsed
    /\ l # dst
    /\ Commit(MoveSelfInto(Cur, l, dst))
    /\ last' = Call("MoveSelfInto", l, Junk, U32Zero, 0, NullPtr, <<>>)
    /\ UNCHANGED <<assigned, it, seen, adds, rgba>>

CallDeepCopyInto(l, dst) ==
    /\ ~oopsed
    /\ l # dst
    /\ Commit(DeepCopyInto(Cur, l, dst))
    /\ last' = Call("DeepCopyInto", l, Junk, U32Zero, 0, NullPtr, <<>>)
    /\ UNCHANGED <<assigned, it, seen, adds, rgba>>

CallClear(l) ==
    /\ ~oopsed
    /\ LET r == IdList_Clear(Cur, l)
       IN  /\ Commit(r.m)
           /\ last' = Call("Clear", l, Junk, U32Zero, 0, NullPtr, r.log)
    /\ UNCHANGED <<assigned, it, seen, adds, rgba>>

\* One IdList, every method that reads or edits its elements.
Next ==
    \/ \E t \in Elements : CallAdd("a", t)
    \/ \E t \in Blank : CallAddAndAssignId("a", t)
    \/ \E h \in Handles : CallRemoveById("a", h)
    \/ \E h \in Handles : CallFindById("a", h)
    \/ \E h \in Handles : CallFindByIdNoOops("a", h)
    \/ \E h \in Handles, g \in Tags : CallTag("a", h, g)
    \/ CallClearTags("a")
    \/ CallRemoveTagged("a")

Spec == Init /\ [][Next]_vars

\* One IdList, the calls that add and remove, with the handles that
\* AddAndAssignId has returned kept as history.
AssignElements == {[h |-> h, tag |-> 0, val |-> 0] : h \in Handles}
AssignBlank == {[h |-> U32Zero, tag |-> 0, val |-> 0]}

NextAssign ==
    \/ \E t \in AssignElements : CallAdd("a", t)
    \/ \E t \in AssignBlank : TrackAddAndAssignId("a", t)
    \/ \E h \in Handles : CallRemoveById("a", h)

SpecAssign == Init /\ [][NextAssign]_vars

\* Two IdLists, the calls that add, remove, clear, move and copy.
CopyElements == {[h |-> U32(0, k), tag |-> 0, val |-> 0] : k \in 1..2}
CopyBlank == {[h |-> U32Zero, tag |-> 0, val |-> 0]}

NextCopy ==
    \/ \E l \in IdNames, t \in CopyElements : CallAdd(l, t)
    \/ \E l \in IdNames, t \in CopyBlank : CallAddAndAssignId(l, t)
    \/ \E l \in IdNames, k \in 1..MaxId : CallRemoveById(l, U32(0, k))
    \/ \E l \in IdNames : CallClear(l)
    \/ \E l \in IdNames, dst \in IdNames : CallMoveSelfInto(l, dst)
    \/ \E l \in IdNames, dst \in IdNames : CallDeepCopyInto(l, dst)

SpecCopy == Init /\ [][NextCopy]_vars

----------------------------------------------------------------------------
(* List<T>: Add calls, then a traversal First(), NextAfter(), ... to NULL. *)
(* The k-th Add passes the element with val = k, so that the order of the  *)
(* elements is visible.  `it` is the traversal's pointer, `seen` what the  *)
(* traversal has yielded so far, `adds` the number of Add calls made.      *)

Deref(m, p) == Read(m.heap, p.addr, p.idx)

CallListAdd ==
    /\ ~oopsed
    /\ it = NullPtr
    /\ adds < MaxAdds
    /\ LET t == [h |-> U32Zero, tag |-> 0, val |-> adds + 1]
       IN  /\ Commit(List_Add(Cur, t))
           /\ last' = Call("List::Add", "a", t, U32Zero, 0, NullPtr, <<>>)
    /\ adds' = adds + 1
    /\ seen' = <<>>
    /\ UNCHANGED <<assigned, it, rgba>>

CallFirst ==
    /\ ~oopsed
    /\ it = NullPtr
    /\ it' = First(Cur)
    /\ seen' = IF it' = NullPtr THEN <<>> ELSE <<Deref(Cur, it')>>
    /\ last' = Call("List::First", "a", Junk, U32Zero, 0, it', <<>>)
    /\ UNCHANGED <<heap, idl, lst, oopsed, assigned, adds, rgba>>

CallNextAfter ==
    /\ ~oopsed
    /\ it # NullPtr
    /\ it' = NextAfter(Cur, it)
    /\ seen' = IF it' = NullPtr THEN seen ELSE Append(seen, Deref(Cur, it'))
    /\ last' = Call("List::NextAfter", "a", Junk, U32Zero, 0, it', <<>>)
    /\ UNCHANGED <<heap, idl, lst, oopsed, assigned, adds, rgba>>

NextList ==
    \/ CallListAdd
    \/ CallFirst
    \/ CallNextAfter

SpecList == Init /\ [][NextList]_vars

----------------------------------------------------------------------------
(* List<T>: every method that edits the list, on short lists of elements   *)
(* that differ in val and tag.  RemoveLast takes any int.                  *)

ListElements == {[h |-> U32Zero, tag |-> g, val |-> v] : g \in Tags, v \in 1..2}

\* A call that touches elem[0..k-1] stays inside the block when k is at most
\* elemsAllocated.  Outside the block the behaviour is undefined: the process
\* ends there (TRUE), or goes on with the values the slots hold (FALSE).
Faults(m, k) == IF k > m.lst.elemsAllocated THEN {TRUE, FALSE} ELSE {FALSE}

\* the count passed to RemoveLast is an int of either sign
Counts == (-1)..(MaxLen + 1)

CallListAddElem(t) ==
    /\ ~oopsed
    /\ lst.n < MaxLen \/ lst.n >= lst.elemsAllocated
    /\ \E dead \in Faults(AllocForOneMore(Cur), lst.n + 1) :
           Commit(IF dead THEN oops(Cur) ELSE List_Add(Cur, t))
    /\ last' = Call("List::Add", "a", t, U32Zero, 0, NullPtr, <<>>)
    /\ UNCHANGED <<assigned, it, seen, adds, rgba>>

CallAddToBeginning(t) ==
    /\ ~oopsed
    /\ lst.n < MaxLen \/ lst.n >= lst.elemsAllocated
    /\ \E dead \in Faults(AllocForOneMore(Cur), lst.n + 1) :
           Commit(IF dead THEN oops(Cur) ELSE AddToBeginning(Cur, t))
    /\ last' = Call("List::AddToBeginning", "a", t, U32Zero, 0, NullPtr, <<>>)
    /\ UNCHANGED <<assigned, it, seen, adds, rgba>>

CallListClearTags ==
    /\ ~oopsed
    /\ \E dead \in Faults(Cur, lst.n) :
           Commit(IF dead THEN oops(Cur) ELSE List_ClearTags(Cur))
    /\ last' = Call("List::ClearTags", "a", Junk, U32Zero, 0, NullPtr, <<>>)
    /\ UNCHANGED <<assigned, it, seen, adds, rgba>>

CallListRemoveTagged ==
    /\ ~oopsed
    /\ \E dead \in Faults(Cur, lst.n) :
           Commit(IF dead THEN oops(Cur) ELSE List_RemoveTagged(Cur))
    /\ last' = Call("List::RemoveTagged", "a", Junk, U32Zero, 0, NullPtr, <<>>)
    /\ UNCHANGED <<assigned, it, seen, adds, rgba>>

\* the count is kept in the call record's tag field
CallRemoveLast(cnt) ==
    /\ ~oopsed
    /\ cnt < 0 => lst.n <= MaxLen
    /\ Commit(RemoveLast(Cur, cnt))
    /\ last' = Call("List::RemoveLast", "a", Junk, U32Zero, cnt, NullPtr, <<>>)
    /\ UNCHANGED <<assigned, it, seen, adds, rgba>>

CallReverse ==
    /\ ~oopsed
    /\ \E dead \in Faults(Cur, lst.n) :
           Commit(IF dead THEN oops(Cur) ELSE Reverse(Cur))
    /\ last' = Call("List::Reverse", "a", Junk, U32Zero, 0, NullPtr, <<>>)
    /\ UNCHANGED <<assigned, it, seen, adds, rgba>>

CallListClear ==
    /\ ~oopsed
    /\ Commit(List_Clear(Cur))
    /\ last' = Call("List::Clear", "a", Junk, U32Zero, 0, NullPtr, <<>>)
    /\ UNCHANGED <<assigned, it, seen, adds, rgba>>

NextEdit ==
    \/ \E t \in ListElements : CallListAddElem(t)
    \/ \E t \in ListElements : CallAddToBeginning(t)
    \/ CallListClearTags
    \/ CallListRemoveTagged
    \/ \E cnt \in Counts : CallRemoveLast(cnt)
    \/ CallReverse
    \/ CallListClear

SpecEdit == Init /\ [][NextEdit]_vars

\* The same List, with counts that take n past the first block the list
\* allocates: (0 + 32)*2 slots.
FirstAlloc == (0 + 32) * 2
FarCounts == {-(FirstAlloc + 1), FirstAlloc + 1}
FarElements == {[h |-> U32Zero, tag |-> 0, val |-> v] : v \in 1..2}

NextFar ==
    \/ \E t \in FarElements : CallListAddElem(t)
    \/ \E cnt \in FarCounts : CallRemoveLast(cnt)
    \/ CallListClear

SpecFar == Init /\ [][NextFar]_vars

----------------------------------------------------------------------------
(* RgbaColor: a color c, packed with ToPackedInt and then unpacked with     *)
(* FromPackedInt.  rgba.pc tells how far that has gone: at "c" the color is *)
(* there, at "packed" rgba.packed is its packed value, at "back"            *)
(* rgba.back is the color unpacked from rgba.packed.                        *)

\* the values a field takes at the ends and in the middle of its range
ByteSamples == {0, 1, 127, 128, 254, 255}

\* the colors: every combination of the sample values, and every value of
\* each field with the other fields at the ends of their range
Colors ==
    {From(r, g, b, a) : r \in ByteSamples, g \in ByteSamples,
                        b \in ByteSamples, a \in ByteSamples}
    \cup {From(x, y, y, z) : x \in 0..255, y \in {0, 255}, z \in {0, 255}}
    \cup {From(y, x, y, z) : x \in 0..255, y \in {0, 255}, z \in {0, 255}}
    \cup {From(y, z, x, y) : x \in 0..255, y \in {0, 255}, z \in {0, 255}}
    \cup {From(y, z, y, x) : x \in 0..255, y \in {0, 255}, z \in {0, 255}}

InitColor ==
    /\ heap = <<>>
    /\ idl = [l \in IdNames |-> EmptyStruct]
    /\ lst = EmptyStruct
    /\ oopsed = FALSE
    /\ last = Call("Init", "a", Junk, U32Zero, 0, NullPtr, <<>>)
    /\ assigned = {}
    /\ it = NullPtr
    /\ seen = <<>>
    /\ adds = 0
    /\ \E c \in Colors : rgba = [NoColor EXCEPT !.pc = "c", !.c = c]

CallToPackedInt ==
    /\ rgba.pc = "c"
    /\ rgba' = [rgba EXCEPT !.pc = "packed", !.packed = ToPackedInt(rgba.c)]
    /\ UNCHANGED <<heap, idl, lst, oopsed, last, assigned, it, seen, adds>>

CallFromPackedInt ==
    /\ rgba.pc = "packed"
    /\ rgba' = [rgba EXCEPT !.pc = "back", !.back = FromPackedInt(rgba.packed)]
    /\ UNCHANGED <<heap, idl, lst, oopsed, last, assigned, it, seen, adds>>

NextColor ==
    \/ CallToPackedInt
    \/ CallFromPackedInt

SpecColor == InitColor /\ [][NextColor]_vars

----------------------------------------------------------------------------
(* Properties.                                                             *)

\* elem[0..n-1] in strictly ascending order of h.v
Sorted(m, l) ==
    \A i \in 1..(m.idl[l].n - 1) : U32Lt(IdElems(m, l)[i].h, IdElems(m, l)[i + 1].h)

\* a linear search of elem[0..n-1] for the handle: its address, or NULL
LinearFind(m, l, hv) ==
    IF \E i \in 0..(m.idl[l].n - 1) : Read(m.heap, m.idl[l].elem, i).h = hv
    THEN [addr |-> m.idl[l].elem,
          idx |-> CHOOSE i \in 0..(m.idl[l].n - 1) : Read(m.heap, m.idl[l].elem, i).h = hv]
    ELSE NullPtr

\* the sequence s without its elements of handle hv
RECURSIVE Without(_, _)
Without(s, hv) ==
    IF s = <<>> THEN <<>>
    ELSE IF Head(s).h = hv THEN Without(Tail(s), hv)
    ELSE <<Head(s)>> \o Without(Tail(s), hv)

\* the elements with their tag fields blanked
Untagged(s) == [i \in 1..Len(s) |-> [s[i] EXCEPT !.tag = 0]]

\* C1: after every Add, AddAndAssignId and RemoveById (and every other call)
\* on an IdList that started empty, elem[0..n-1] is in strictly ascending
\* order of handle, so no two elements share a handle.
C1_SortedAscending ==
    /\ Sorted(Cur, "a")
    /\ \A i, j \in 1..idl["a"].n :
         i # j => IdElems(Cur, "a")[i].h # IdElems(Cur, "a")[j].h

\* an Add has just put an element between two others
C1_Witness ==
    /\ last.op = "Add" /\ ~oopsed
    /\ idl["a"].n = 3
    /\ IdElems(Cur, "a")[2].h = last.h

C3_AddThenFind ==
    [][(last'.op = "Add" /\ ~HasHandle(Cur, "a", last'.h)) =>
          /\ ~oopsed'
          /\ ~FindById(Cur', "a", last'.h).m.oops
          /\ Deref(Cur', FindById(Cur', "a", last'.h).ptr) = last'.t
          /\ \A g \in Handles :
               FindByIdNoOops(Cur, "a", g) # NullPtr =>
                 /\ FindByIdNoOops(Cur', "a", g) # NullPtr
                 /\ Deref(Cur', FindByIdNoOops(Cur', "a", g))
                      = Deref(Cur, FindByIdNoOops(Cur, "a", g))]_vars

\* an Add has put an element in front of two others
C3_Witness ==
    /\ last.op = "Add" /\ ~oopsed
    /\ idl["a"].n = 3
    /\ IdElems(Cur, "a")[1] = last.t
    /\ last.t.tag = 1

\* C4: Add(t) with a handle already in the list ends in oops() and inserts
\* nothing, whatever the size of the list and the place of the equal handle.
C4_DuplicateAborts ==
    [][(last'.op = "Add" /\ HasHandle(Cur, "a", last'.h)) =>
          /\ oopsed'
          /\ IdElems(Cur', "a") = IdElems(Cur, "a")
          /\ idl'["a"].n = idl["a"].n]_vars

\* an Add of the handle of the middle one of three elements has aborted
C4_Witness ==
    /\ last.op = "Add" /\ oopsed
    /\ idl["a"].n = 3
    /\ IdElems(Cur, "a")[2].h = last.h

\* C5: on every list and for every handle, FindByIdNoOops returns what a
\* linear search returns: the address of the element with that handle, NULL
\* when there is none; and a call leaves the list as it was.
C5_FindAgreesWithLinear ==
    /\ \A hv \in Handles : FindByIdNoOops(Cur, "a", hv) = LinearFind(Cur, "a", hv)
    /\ last.op = "FindByIdNoOops" =>
         /\ ~oopsed
         /\ last.ptr = LinearFind(Cur, "a", last.h)
         /\ last.ptr # NullPtr => Deref(Cur, last.ptr).h = last.h

\* FindByIdNoOops has found the last of three elements
C5_Witness ==
    /\ last.op = "FindByIdNoOops"
    /\ idl["a"].n = 3
    /\ last.ptr = [addr |-> idl["a"].elem, idx |-> 2]

\* FindByIdNoOops has returned NULL on a list that holds elements
C5_WitnessMiss ==
    /\ last.op = "FindByIdNoOops"
    /\ idl["a"].n = 3
    /\ last.ptr = NullPtr

\* C6: FindById(h) ends in oops() exactly when no element has handle h, and
\* otherwise returns the address of the element with handle h, never NULL.
C6_FindByIdFatalOnMiss ==
    last.op = "FindById" =>
      /\ oopsed <=> ~HasHandle(Cur, "a", last.h)
      /\ ~oopsed => (last.ptr # NullPtr /\ Deref(Cur, last.ptr).h = last.h)

\* FindById has aborted on a list of three elements
C6_Witness ==
    /\ last.op = "FindById" /\ oopsed
    /\ idl["a"].n = 3

\* C7: RemoveById(h) with h present removes the one element with handle h:
\* n goes down by one and the other elements stay, in their order, also those
\* whose tag was not zero; with h absent the call ends in oops().
C7_RemoveByIdExactlyOne ==
    [][last'.op = "RemoveById" =>
          IF HasHandle(Cur, "a", last'.h)
          THEN /\ ~oopsed'
               /\ idl'["a"].n = idl["a"].n - 1
               /\ Untagged(IdElems(Cur', "a"))
                    = Untagged(Without(IdElems(Cur, "a"), last'.h))
               /\ idl'["a"].elemsAllocated = idl["a"].elemsAllocated
          ELSE oopsed']_vars

\* RemoveById has removed one of three elements
C7_Witness ==
    /\ last.op = "RemoveById" /\ ~oopsed
    /\ idl["a"].n = 2
    /\ ~HasHandle(Cur, "a", last.h)

\* the other one of the two IdLists
Other(l) == IF l = "a" THEN "b" ELSE "a"

\* the calls that edit the IdList they are made on
Editing == {"Add", "AddAndAssignId", "RemoveById", "Clear"}

\* a step that is an editing call on one IdList leaves the other IdList's
\* fields and elements as they were
OthersUntouched ==
    last'.op \in Editing =>
      /\ idl'[Other(last'.id)] = idl[Other(last'.id)]
      /\ IdElems(Cur', Other(last'.id)) = IdElems(Cur, Other(last'.id))

\* C8: src.MoveSelfInto(dst) gives dst the elements, order, n and
\* elemsAllocated that src had and leaves src the empty container (n = 0,
\* elemsAllocated = 0, elem = NULL); calls on one of the two made later do
\* not change the other.
C8_MoveTransfersOwnership ==
    [][/\ last'.op = "MoveSelfInto" =>
            /\ IdElems(Cur', Other(last'.id)) = IdElems(Cur, last'.id)
            /\ idl'[Other(last'.id)] = idl[last'.id]
            /\ idl'[last'.id] = EmptyStruct
            /\ IdElems(Cur', last'.id) = <<>>
       /\ OthersUntouched]_vars

\* a MoveSelfInto has moved two elements into a list that held one
C8_Witness ==
    /\ last.op = "MoveSelfInto" /\ last.id = "a"
    /\ idl["b"].n = 2 /\ idl["b"].elemsAllocated = 64
    /\ idl["a"] = EmptyStruct

\* C9: src.DeepCopyInto(dst) gives dst the elements, order, n and
\* elemsAllocated of src and leaves src unchanged, and the two blocks are
\* not the same block: an Add, AddAndAssignId, RemoveById or Clear on one of
\* the two lists leaves the elements of the other unchanged.
C9_DeepCopyIndependent ==
    [][/\ last'.op = "DeepCopyInto" =>
            /\ IdElems(Cur', Other(last'.id)) = IdElems(Cur, last'.id)
            /\ idl'[Other(last'.id)].n = idl[last'.id].n
            /\ idl'[Other(last'.id)].elemsAllocated = idl[last'.id].elemsAllocated
            /\ idl'[last'.id] = idl[last'.id]
            /\ IdElems(Cur', last'.id) = IdElems(Cur, last'.id)
       /\ OthersUntouched]_vars

\* after a DeepCopyInto of two elements, both lists hold them
C9_Witness ==
    /\ last.op = "DeepCopyInto" /\ last.id = "a"
    /\ idl["a"].n = 2 /\ idl["b"].n = 2
    /\ IdElems(Cur, "a") = IdElems(Cur, "b")
    /\ idl["a"].elem # idl["b"].elem

\* C10: after n List::Add calls on an empty List, First() and then
\* NextAfter() until NULL yields exactly the n elements, in the order they
\* were added (First() is NULL when n = 0), across the growth of the block.
C10_TraversalInOrder ==
    /\ Len(seen) <= lst.n
    /\ lst.n = adds
    /\ \A i \in 1..Len(seen) : seen[i].val = i
    /\ last.op = "List::First" => (it = NullPtr <=> adds = 0)
    /\ (last.op \in {"List::First", "List::NextAfter"} /\ it = NullPtr) =>
         Len(seen) = adds

\* a traversal has ended after yielding 65 elements from a grown block
C10_Witness ==
    /\ last.op = "List::NextAfter" /\ it = NullPtr
    /\ Len(seen) = 65 /\ adds = 65
    /\ lst.elemsAllocated = 192

\* the elements of s whose tag is zero, in their order
RECURSIVE KeepUntagged(_)
KeepUntagged(s) ==
    IF s = <<>> THEN <<>>
    ELSE IF Head(s).tag = 0 THEN <<Head(s)>> \o KeepUntagged(Tail(s))
    ELSE KeepUntagged(Tail(s))

\* C11: List::RemoveTagged removes the elements whose tag is not zero and keeps
\* the elements whose tag is zero, unchanged and in their order; n becomes the
\* number of elements kept and elemsAllocated stays as it was, whatever the
\* tags are (all set, none set, or some).
C11_RemoveTaggedKeepsUntagged ==
    [][last'.op = "List::RemoveTagged" /\ ~oopsed' =>
          /\ ListElems(Cur') = KeepUntagged(ListElems(Cur))
          /\ lst'.n = Len(KeepUntagged(ListElems(Cur)))
          /\ lst'.elemsAllocated = lst.elemsAllocated
          /\ lst'.elem = lst.elem]_vars

\* RemoveTagged has swept a tagged element from in front of an untagged one:
\* one element is left, and slot 1 still holds the value that moved down
C11_Witness ==
    /\ last.op = "List::RemoveTagged" /\ ~oopsed
    /\ lst.n = 1
    /\ ListElems(Cur)[1] \in ListElements
    /\ Read(heap, lst.elem, 1) = ListElems(Cur)[1]

\* RemoveTagged has found every element tagged
C11_WitnessAll ==
    /\ last.op = "List::RemoveTagged" /\ ~oopsed
    /\ lst.n = 0
    /\ Read(heap, lst.elem, 0).tag = 1 /\ Read(heap, lst.elem, 1).tag = 1

\* C12: RemoveLast(cnt) with cnt > n ends in oops() and leaves the list as it
\* was; with 0 <= cnt <= n it returns with the last cnt elements removed, the
\* first n - cnt elements unchanged and in their order, and elemsAllocated as
\* it was.
C12_RemoveLastDropsTail ==
    [][last'.op = "List::RemoveLast" =>
          /\ last'.tag > lst.n =>
               /\ oopsed'
               /\ lst' = lst
               /\ ListElems(Cur') = ListElems(Cur)
          /\ 0 <= last'.tag /\ last'.tag <= lst.n =>
               /\ ~oopsed'
               /\ lst'.n = lst.n - last'.tag
               /\ ListElems(Cur') = SubSeq(ListElems(Cur), 1, lst.n - last'.tag)
               /\ lst'.elemsAllocated = lst.elemsAllocated
               /\ lst'.elem = lst.elem]_vars

\* RemoveLast(1) has returned on a list of two elements: one is left, and the
\* slot above it still holds the element removed
C12_Witness ==
    /\ last.op = "List::RemoveLast" /\ ~oopsed
    /\ last.tag = 1
    /\ lst.n = 1
    /\ ListElems(Cur)[1] \in ListElements
    /\ Read(heap, lst.elem, 1) \in ListElements

\* RemoveLast has ended in oops() on a count above n
C12_WitnessAbort ==
    /\ last.op = "List::RemoveLast" /\ oopsed
    /\ last.tag > lst.n
    /\ lst.n = 2

\* C15: the capacity of a List or an IdList changes only inside Add,
\* AddToBeginning and AddAndAssignId, only when n >= elemsAllocated at the
\* call, and then to (old + 32)*2; an add made with n < elemsAllocated and
\* every RemoveTagged, RemoveById, RemoveLast and Reverse leave elemsAllocated
\* as it was; after every add that returns, n <= elemsAllocated.
C15_CapacityGrowsOnlyInAdd ==
    [][/\ last'.op \in {"List::Add", "List::AddToBeginning"} /\ ~oopsed' =>
            /\ lst'.elemsAllocated = IF lst.n >= lst.elemsAllocated
                                     THEN (lst.elemsAllocated + 32) * 2
                                     ELSE lst.elemsAllocated
            /\ lst'.n <= lst'.elemsAllocated
       /\ last'.op \in {"List::RemoveTagged", "List::RemoveLast", "List::Reverse"} =>
            lst'.elemsAllocated = lst.elemsAllocated
       /\ last'.op \in {"Add", "AddAndAssignId"} /\ ~oopsed' =>
            /\ idl'[last'.id].elemsAllocated =
                 IF idl[last'.id].n >= idl[last'.id].elemsAllocated
                 THEN (idl[last'.id].elemsAllocated + 32) * 2
                 ELSE idl[last'.id].elemsAllocated
            /\ idl'[last'.id].n <= idl'[last'.id].elemsAllocated
       /\ last'.op \in {"RemoveTagged", "RemoveById"} =>
            idl'[last'.id].elemsAllocated = idl[last'.id].elemsAllocated]_vars

\* C18: in every state of a List reached from the empty list by Add,
\* AddToBeginning, ClearTags, RemoveTagged, RemoveLast(cnt) with any int cnt,
\* Reverse and Clear, none of which has aborted, 0 <= n <= elemsAllocated.
C18_CountWithinCapacity ==
    ~oopsed => 0 <= lst.n /\ lst.n <= lst.elemsAllocated

\* C16: IdList::Clear calls the Clear() of each of the n elements once, elem[0]
\* to elem[n-1], and releases the block after the last of them; it leaves
\* n = 0, elemsAllocated = 0 and elem = NULL, and an Add or AddAndAssignId that
\* follows on the same IdList returns with its element as the only one.
C16_ClearTearsDownThenFrees ==
    [][/\ last'.op = "Clear" =>
            /\ ~oopsed'
            /\ Len(last'.log) = idl[last'.id].n + (IF idl[last'.id].elem # NULL THEN 1 ELSE 0)
            /\ \A i \in 1..idl[last'.id].n :
                 last'.log[i] = [ev |-> "T::Clear", idx |-> i - 1,
                                 h |-> IdElems(Cur, last'.id)[i].h]
            /\ idl[last'.id].elem # NULL =>
                 /\ last'.log[Len(last'.log)].ev = "MemFree"
                 /\ idl[last'.id].elem \notin DOMAIN heap'
            /\ idl'[last'.id] = EmptyStruct
       /\ last.op = "Clear" /\ last'.op \in {"Add", "AddAndAssignId"} /\ last'.id = last.id =>
            /\ ~oopsed'
            /\ idl'[last'.id].n = 1
            /\ IdElems(Cur', last'.id) = <<last'.t>>]_vars

\* Clear has torn down two elements and then released their block
C16_Witness ==
    /\ last.op = "Clear" /\ ~oopsed
    /\ Len(last.log) = 3
    /\ last.log[1].ev = "T::Clear" /\ last.log[2].ev = "T::Clear"
    /\ last.log[3].ev = "MemFree"
    /\ idl[last.id] = EmptyStruct

\* C17: on every IdList (sorted, without duplicates), also one that holds the
\* handle 2^32-1, AddAndAssignId returns: the handle it assigns is above every
\* handle in the list (1 on the empty list), the new element is the last one,
\* and the handle is in the caller's element and is the value returned.
C17_AssignsAboveAll ==
    [][last'.op = "AddAndAssignId" =>
          /\ ~oopsed'
          /\ \A i \in 1..idl[last'.id].n : U32Lt(IdElems(Cur, last'.id)[i].h, last'.h)
          /\ idl[last'.id].n = 0 => last'.h = U32(0, 1)
          /\ idl'[last'.id].n = idl[last'.id].n + 1
          /\ IdElems(Cur', last'.id)[idl'[last'.id].n] = last'.t
          /\ last'.t.h = last'.h]_vars

\* C19: RemoveById(h) does not keep tags: when it returns, every element left
\* has tag 0 (also the elements that Tag() had tagged), so that a RemoveTagged
\* that follows removes nothing; the elements left are those the list held,
\* without the one of handle h, with no field changed but tag.
C19_RemoveByIdClearsTags ==
    [][last'.op = "RemoveById" /\ ~oopsed' =>
          /\ \A i \in 1..idl'[last'.id].n : IdElems(Cur', last'.id)[i].tag = 0
          /\ IdList_RemoveTagged(Cur', last'.id).idl = idl'
          /\ IdElems(IdList_RemoveTagged(Cur', last'.id), last'.id) = IdElems(Cur', last'.id)
          /\ IdElems(Cur', last'.id) = Untagged(Without(IdElems(Cur, last'.id), last'.h))]_vars

\* RemoveById has returned and has left two elements, both with tag 0
C19_Witness ==
    /\ last.op = "RemoveById" /\ ~oopsed
    /\ idl[last.id].n = 2
    /\ \A i \in 1..2 : IdElems(Cur, last.id)[i].tag = 0
    /\ IdList_RemoveTagged(Cur, last.id).idl[last.id].n = 2

\* C13: for every color c with fields in 0..255, FromPackedInt(ToPackedInt(c))
\* has the red, green, blue and alpha of c.
C13_PackRoundTrip ==
    rgba.pc = "back" =>
      /\ rgba.back.red = rgba.c.red
      /\ rgba.back.green = rgba.c.green
      /\ rgba.back.blue = rgba.c.blue
      /\ rgba.back.alpha = rgba.c.alpha

\* a color with four different fields, alpha neither 0 nor 255, has been
\* packed and unpacked
C13_Witness ==
    /\ rgba.pc = "back"
    /\ rgba.c = [red |-> 1, green |-> 128, blue |-> 254, alpha |-> 127]
    /\ rgba.back.alpha = 127

\* C14: ToPackedInt(c) is red + green*2^8 + blue*2^16 + (255 - alpha)*2^24:
\* red in bits 0-7, green in bits 8-15, blue in bits 16-23 and 255 - alpha in
\* bits 24-31, no field reaching into another's bits and nothing above bit 31
\* (the top byte is zero when alpha = 255).  The value is held as its two
\* 16-bit halves.
C14_PackedLayout ==
    rgba.pc = "packed" =>
      /\ rgba.packed.lo = rgba.c.red + rgba.c.green * 256
      /\ rgba.packed.hi = rgba.c.blue + (255 - rgba.c.alpha) * 256
      /\ rgba.packed.lo \in 0..(Limb - 1) /\ rgba.packed.hi \in 0..(Limb - 1)
      /\ rgba.packed.lo % 256 = rgba.c.red
      /\ rgba.packed.lo \div 256 = rgba.c.green
      /\ rgba.packed.hi % 256 = rgba.c.blue
      /\ rgba.packed.hi \div 256 = 255 - rgba.c.alpha
      /\ rgba.c.alpha = 255 => rgba.packed.hi \div 256 = 0

\* a color with alpha = 0 and the other fields full has been packed: every
\* bit of the value is set
C14_Witness ==
    /\ rgba.pc = "packed"
    /\ rgba.c = [red |-> 255, green |-> 255, blue |-> 255, alpha |-> 0]
    /\ rgba.packed = U32Max

====
